---- MODULE Spec2Model ----
(***************************************************************************)
(* Climate acquisition of notebooks/01_data_acquisition_eda.py:            *)
(*   - _get_session / _get_json : the retrying HTTP GET          (SpecHttp)*)
(*   - get_daily_climate_year, the checkpoint ledger and                   *)
(*     build_and_save_climate_2017 : the resumable download      (Spec)    *)
(*   - _active_mask_for_year, assign_nearest_station :                     *)
(*     the station assigner                          (SpecMask, SpecAssign)*)
(*   - impute_station_climate_2017 : the median cascade      (SpecImpute)  *)
(*   - _fetch_range : metadata, secondary fetch, refresh     (SpecFetch)   *)
(*   - get_daily_climate_year with the rows of its frames    (SpecYear)    *)
(*   - the sub-range table and _last_day_of_month            (SpecRanges)  *)
(* The program is single-threaded; every action is one step of the one     *)
(* control flow, and the remote archive, the disk and a process kill are   *)
(* the environment.                                                        *)
(***************************************************************************)
EXTENDS Integers, Sequences, FiniteSets, TLC

VARIABLES
    \* ---- HTTP layer (_get_session, _get_json) ----
    SESSION,        \* "None" or "session": the module-level session object
    SESSION_USES,   \* requests served by the current session object
    gj_pc,          \* position in _get_json: idle, loop, sleep, returned, raised
    tries,          \* the tries argument of the current call
    i,              \* the loop variable of _get_json (next / current attempt)
    last,           \* the last caught exception: None, je, ce, he
    r,              \* the response (or exception) the last request met
    ret,            \* the value the call returned
    exc,            \* the exception the call raised
    requests_n,     \* history: requests issued by the current call
    failures_n,     \* history: attempts of the call that met a transient failure
    waits_n,        \* history: backoff sleeps taken by the current call
    wait,           \* the last backoff sleep, in tenths of a second
    waited,         \* history: a backoff sleep followed the last request
    \* ---- disk ----
    DONE_FILE,      \* the lines of climate_2017_done.txt
    FAIL_FILE,      \* the lines of climate_2017_failed.txt
    cache,          \* climate_<stid>_2017.json per station: NoFile, Corrupt or records
    \* ---- build_and_save_climate_2017 / get_daily_climate_year ----
    pc,             \* position of the process
    run,            \* number of runs started so far
    done,           \* the set _load_done() returned at startup
    k,              \* index of the current station in unique_stations
    station_frames, \* the per-station frames collected by this run
    level,          \* the granularity level being requested (1..4)
    sub,            \* the next sub-range of the level
    frames,         \* how many non-empty frames this level has collected
    got_any,        \* some sub-range of this level returned records
    df,             \* what get_daily_climate_year returned to the caller
    raised,         \* get_daily_climate_year raised instead of returning
    \* ---- history of the current run ----
    attempted,      \* stations get_daily_climate_year was called for, in order
    calls,          \* _fetch_range calls of the current get_daily_climate_year
    entry,          \* the cache entry the current get_daily_climate_year call found
    data_level,     \* the level whose sub-range first returned records (0: none)
    interrupted,    \* the station whose fetch the last kill interrupted (0: none)
    resumed,        \* the station of the current call is that interrupted station
    marked_done,    \* stations this run appended to DONE_FILE
    marked_fail,    \* stations this run appended to FAIL_FILE
    paused,         \* the pause that ends a station's iteration was taken
    naps,           \* pauses taken after sub-range requests of the current call
    \* ---- the table functions (assigner, imputation) ----
    fn_pc,          \* idle, input (arguments chosen), mask, assigned, imputed
    year,           \* the year argument
    stations,       \* the stations argument: rows of the inventory
    perfiles,       \* the perfiles argument: rows of the profile table
    active_mask,    \* what _active_mask_for_year returned
    order,          \* np.argsort(dist_km, axis=1): one station order per valid profile
    assigned,       \* what assign_nearest_station returned or raised
    month_col,      \* the clima_station argument has a "month" column
    clima_station,  \* the clima_station argument: rows of daily records
    imputed,        \* what impute_station_climate_2017 returned
    \* ---- one call of _fetch_range ----
    fr_pc,          \* idle, meta, short, refresh, sleep, returned, raised
    meta,           \* the last answer of the metadata endpoint
    short,          \* the secondary URL the next fetch will use
    fr_k,           \* the loop variable k of _fetch_range
    fr_df,          \* the frame _fetch_range returned
    meta_requests,  \* history: _get_json calls on the metadata URL
    fetched,        \* history: the URLs of the secondary fetches, in order
    errors_n,       \* history: secondary fetches that raised
    \* ---- one call of get_daily_climate_year, with the rows of its frames ----
    frame_list,     \* the list frames: the non-empty frames of the current level
    out_rows,       \* the rows of out, the concatenation that is returned
    cache_rows,     \* the rows written to the cache file
    asked,          \* history: the <<level, sub-range>> pairs requested, in order
    got,            \* history: the pairs whose request returned records
    \* ---- the sub-range table of get_daily_climate_year ----
    year_ranges     \* the list ranges built for the year

httpVars == <<SESSION, SESSION_USES, gj_pc, tries, i, last, r, ret, exc,
              requests_n, failures_n, waits_n, wait, waited>>
diskVars == <<DONE_FILE, FAIL_FILE, cache>>
runVars  == <<pc, run, done, k, station_frames, level, sub, frames, got_any, df,
              raised>>
histVars == <<attempted, calls, entry, data_level, interrupted, resumed, marked_done,
              marked_fail, paused, naps>>
fnVars   == <<fn_pc, year, stations, perfiles, active_mask, order, assigned, month_col,
              clima_station, imputed>>
frVars   == <<fr_pc, meta, short, fr_k, fr_df, meta_requests, fetched, errors_n>>
yrVars   == <<frame_list, out_rows, cache_rows, asked, got>>
rgVars   == <<year_ranges>>
callVars == <<frVars, yrVars, rgVars>>
vars == <<httpVars, diskVars, runVars, histVars, fnVars, callVars>>

----------------------------------------------------------------------------
(* Bounds of the exploration *)
MaxTries == 6       \* _get_json is explored for tries in 0..MaxTries
MaxJitter == 2      \* jitter values explored: 0..MaxJitter tenths (below 0.5 s)
NumStations == 2    \* length of unique_stations
MaxRuns == 2        \* runs of build_and_save_climate_2017 explored
MaxMaskRows == 1    \* _active_mask_for_year is explored on 1..MaxMaskRows stations
NumInventory == 2   \* rows of the stations argument of assign_nearest_station
NumProfiles == 2    \* rows of the perfiles argument of assign_nearest_station
MinYear == 1896     \* the sub-range table is built for the years MinYear..MaxYear
MaxYear == 2020
MaxRows == 4        \* impute_station_climate_2017 is explored on 0..MaxRows rows

(* Program constants *)
ROTATE_AFTER == 25  \* _get_session: a session serves 25 requests
BACKOFF_CAP == 50   \* _get_json: min(..., 5.0) s, in tenths
BACKOFF_BASE == 6   \* _get_json: 0.6 s, in tenths
LAST_SECOND == 86399        \* 23:59:59 as a second of the day (y1, line 660)
EARTH_RADIUS_KM == 6371     \* line 706
DEFAULT_YEAR == 2017        \* assign_nearest_station(..., year=2017)

----------------------------------------------------------------------------
(* The remote side of one request: what session.get() meets *)

Statuses == {200, 204, 404, 429, 503}
Bodies == {"", "[1]", "[2]", "<html>"}

ConnError == [kind |-> "ConnectionError", status |-> 0, body |-> ""]
OtherError == [kind |-> "OtherException", status |-> 0, body |-> ""]
NoResponse == [kind |-> "none", status |-> 0, body |-> ""]
Response(sc, b) == [kind |-> "response", status |-> sc, body |-> b]

\* everything one session.get() can end in: a response, a connection error
\* (ConnectionError, RemoteDisconnected) or an exception _get_json does not catch
Outcomes == {Response(sc, b) : sc \in Statuses, b \in Bodies} \cup {ConnError, OtherError}

\* r.json(): the decoded payload, or "JSONDecodeError"
Json(b) == CASE b = "[1]" -> "list1"
             [] b = "[2]" -> "list2"
             [] OTHER -> "JSONDecodeError"

\* line 571: status 204 or an empty body
NoContent(resp) == resp.status = 204 \/ resp.body = ""

\* r.raise_for_status(): HTTPError for 4xx and 5xx
RaisesForStatus(sc) == 400 <= sc /\ sc < 600

\* line 586: the statuses that end the loop at once
PermanentM(sc) == 400 <= sc /\ sc < 500
Permanent(sc) == 400 <= sc /\ sc < 500 /\ sc # 429

\* line 568: for i in range(1, tries+1)
InRangeM(n, t) == n < t
InRange(n, t) == 1 <= n /\ n < t + 1

Pow2(n) == IF n <= 0 THEN 1 ELSE 2 ^ n
Min(a, b) == IF a <= b THEN a ELSE b

\* line 588: min(0.6*(2**(i-1)), 5.0), in tenths of a second
BackoffBase(n) == Min(BACKOFF_BASE * Pow2(n - 1), BACKOFF_CAP)

\* line 575: what a decodable body makes the call return
ReturnedM(b) == "None"
Returned(b) == Json(b)

(* The outcomes of one attempt the retry policy names *)
\* a transient failure: connection error, undecodable body, or status 429/5xx
Transient(resp) ==
    \/ resp.kind = "ConnectionError"
    \/ resp.kind = "response" /\ resp.status \in {429, 503}
    \/ resp.kind = "response" /\ resp.status = 200 /\ resp.body # ""
         /\ Json(resp.body) = "JSONDecodeError"
\* a success carrying a payload
Success(resp) ==
    resp.kind = "response" /\ resp.status = 200 /\ Json(resp.body) # "JSONDecodeError"
\* an HTTP 4xx error response other than 429
Permanent4xx(resp) ==
    resp.kind = "response" /\ resp.status >= 400 /\ resp.status < 500 /\ resp.status # 429

----------------------------------------------------------------------------
(* _get_session, lines 552-558 *)
GetSessionM ==
    IF SESSION = "None" \/ SESSION_USES > ROTATE_AFTER
    THEN SESSION' = "session" /\ SESSION_USES' = 1
    ELSE SESSION' = SESSION /\ SESSION_USES' = SESSION_USES + 1
GetSession ==
    IF SESSION = "None" \/ SESSION_USES >= ROTATE_AFTER
    THEN SESSION' = "session" /\ SESSION_USES' = 1
    ELSE SESSION' = SESSION /\ SESSION_USES' = SESSION_USES + 1

(* _get_json is called: lines 566-567 *)
Call(t) ==
    /\ gj_pc \in {"idle", "returned", "raised"}
    /\ gj_pc' = "loop"
    /\ tries' = t
    /\ i' = 1
    /\ last' = "None"
    /\ r' = NoResponse
    /\ ret' = "nothing"
    /\ exc' = "nothing"
    /\ requests_n' = 0
    /\ failures_n' = 0
    /\ waits_n' = 0
    /\ wait' = 0
    /\ waited' = FALSE
    /\ UNCHANGED <<SESSION, SESSION_USES>>

\* what the body of the loop does with the outcome of session.get(), lines 570-587
Handle(resp) ==
    CASE resp.kind = "ConnectionError" ->
            last' = "ce" /\ gj_pc' = "sleep" /\ UNCHANGED <<ret, exc>>
      [] resp.kind = "OtherException" ->
            gj_pc' = "raised" /\ exc' = "OtherException" /\ UNCHANGED <<last, ret>>
      [] resp.kind = "response" /\ NoContent(resp) ->
            gj_pc' = "returned" /\ ret' = "None" /\ UNCHANGED <<last, exc>>
      [] resp.kind = "response" /\ ~NoContent(resp) /\ RaisesForStatus(resp.status) ->
            /\ last' = "he"
            /\ IF Permanent(resp.status)
               THEN gj_pc' = "raised" /\ exc' = "RuntimeError"
               ELSE gj_pc' = "sleep" /\ exc' = exc
            /\ ret' = ret
      [] OTHER ->
            IF Json(resp.body) = "JSONDecodeError"
            THEN last' = "je" /\ gj_pc' = "sleep" /\ UNCHANGED <<ret, exc>>
            ELSE gj_pc' = "returned" /\ ret' = Returned(resp.body) /\ UNCHANGED <<last, exc>>

(* One attempt: _get_session().get(...) and the handling of what it meets *)
Request(resp) ==
    /\ gj_pc = "loop"
    /\ InRange(i, tries)
    /\ GetSession
    /\ r' = resp
    /\ requests_n' = requests_n + 1
    /\ failures_n' = failures_n + (IF Transient(resp) THEN 1 ELSE 0)
    /\ waited' = FALSE
    /\ Handle(resp)
    /\ UNCHANGED <<tries, i, waits_n, wait>>

(* line 588: the backoff sleep that ends a failed iteration *)
Backoff(j) ==
    /\ gj_pc = "sleep"
    /\ gj_pc' = "loop"
    /\ wait' = BackoffBase(i) + j
    /\ waits_n' = waits_n + 1
    /\ waited' = TRUE
    /\ i' = i + 1
    /\ UNCHANGED <<SESSION, SESSION_USES, tries, last, r, ret, exc, requests_n, failures_n>>

(* line 589: the loop is over without a return *)
Exhausted ==
    /\ gj_pc = "loop"
    /\ ~InRange(i, tries)
    /\ gj_pc' = "raised"
    /\ exc' = "RuntimeError"
    /\ UNCHANGED <<SESSION, SESSION_USES, tries, i, last, r, ret, requests_n,
                   failures_n, waits_n, wait, waited>>

InitHttp ==
    /\ SESSION = "None"
    /\ SESSION_USES = 0
    /\ gj_pc = "idle"
    /\ tries = 0
    /\ i = 1
    /\ last = "None"
    /\ r = NoResponse
    /\ ret = "nothing"
    /\ exc = "nothing"
    /\ requests_n = 0
    /\ failures_n = 0
    /\ waits_n = 0
    /\ wait = 0
    /\ waited = FALSE


----------------------------------------------------------------------------
(* The disk and the frames *)

\* unique_stations (line 858): the required station ids, in order, without repeats
unique_stations == [n \in 1..NumStations |-> n]

\* a DataFrame of daily records: empty, or the records the archive served for
\* station st during run rn
EmptyFrame == [state |-> "empty", st |-> 0, rn |-> 0]
Records(s, n) == [state |-> "records", st |-> s, rn |-> n]
\* a cache file: absent, unreadable, or holding the frame written to it
NoFile == [state |-> "NoFile", st |-> 0, rn |-> 0]
Corrupt == [state |-> "Corrupt", st |-> 0, rn |-> 0]

\* line 800-803: cache_file.exists() and pd.read_json succeeds
ReadableM(f) == FALSE
ReadableIfExists(f) == f.state # "NoFile"
Readable(f) == f.state = "records"

\* lines 808-814: the number of sub-ranges of each granularity level
rangesM == <<2, 1, 4, 12>>
ranges == <<1, 2, 4, 12>>

\* line 830: if got_any: break
LevelSufficesM(g) == FALSE
LevelSuffices(g) == g

\* line 863: if stid in done: continue
IsDoneM(s) == s \in done \/ s \in FAIL_FILE
IsDoneOff(s) == FALSE
IsDone(s) == s \in done

stid == unique_stations[k]

InitDisk ==
    /\ DONE_FILE = {}
    /\ FAIL_FILE = {}
    /\ cache = [s \in 1..NumStations |-> NoFile]

\* the state of a process that is not running
Stopped ==
    /\ done = {}
    /\ k = 1
    /\ station_frames = <<>>
    /\ level = 1
    /\ sub = 1
    /\ frames = 0
    /\ got_any = FALSE
    /\ df = EmptyFrame
    /\ raised = FALSE

InitProcess ==
    /\ pc = "idle"
    /\ Stopped
    /\ attempted = <<>>
    /\ calls = 0
    /\ entry = NoFile
    /\ data_level = 0
    /\ interrupted = 0
    /\ resumed = FALSE
    /\ marked_done = {}
    /\ marked_fail = {}
    /\ paused = FALSE
    /\ naps = 0

InitRun == run = 0 /\ InitProcess

(* build_and_save_climate_2017 starts: lines 857-861 *)
StartRun ==
    /\ pc \in {"idle", "finished"}
    /\ run < MaxRuns
    /\ run' = run + 1
    /\ done' = DONE_FILE
    /\ k' = 1
    /\ station_frames' = <<>>
    /\ pc' = "loop"
    /\ level' = 1 /\ sub' = 1 /\ frames' = 0 /\ got_any' = FALSE
    /\ df' = EmptyFrame /\ raised' = FALSE
    /\ attempted' = <<>>
    /\ calls' = 0
    /\ entry' = NoFile
    /\ data_level' = 0
    /\ marked_done' = {}
    /\ marked_fail' = {}
    /\ paused' = FALSE
    /\ naps' = 0
    /\ resumed' = FALSE
    /\ UNCHANGED <<interrupted, diskVars, httpVars, fnVars, callVars>>

(* lines 863-864: a station of the done set is skipped *)
Skip ==
    /\ pc = "loop"
    /\ k <= NumStations
    /\ IsDone(stid)
    /\ k' = k + 1
    /\ UNCHANGED <<pc, run, done, station_frames, level, sub, frames, got_any, df, raised>>
    /\ UNCHANGED <<histVars, diskVars, httpVars, fnVars, callVars>>

(* line 866 and lines 796-816: get_daily_climate_year is called; a readable *)
(* cache entry is returned, anything else starts the download at level 1   *)
Enter ==
    /\ pc = "loop"
    /\ k <= NumStations
    /\ ~IsDone(stid)
    /\ attempted' = Append(attempted, stid)
    /\ entry' = cache[stid]
    /\ calls' = 0
    /\ data_level' = 0
    /\ paused' = FALSE
    /\ naps' = 0
    /\ raised' = FALSE
    /\ level' = 1 /\ sub' = 1 /\ frames' = 0 /\ got_any' = FALSE
    /\ IF Readable(cache[stid])
       THEN pc' = "returned" /\ df' = cache[stid]
       ELSE pc' = "fetch" /\ df' = EmptyFrame
    /\ UNCHANGED <<run, done, k, station_frames>>
    /\ interrupted' = IF interrupted = stid THEN 0 ELSE interrupted
    /\ resumed' = (interrupted = stid)
    /\ UNCHANGED <<marked_done, marked_fail, diskVars, httpVars, fnVars, frVars, rgVars>>

\* a loop that rests only after a sub-range that did not raise
NapAfterM(o) == IF o = "error" THEN 0 ELSE 1

\* line 829: _sleep_jitter(0.3, 0.5) follows the try/except of every sub-range
NapAfter(o) == IF o \in {"records", "empty", "error"} THEN 1 ELSE 0

(* lines 818-834: one sub-range is requested through _fetch_range; o is what *)
(* came back: records, an empty frame, or an exception (caught, line 824).   *)
(* At the end of a level the loop stops, goes one level finer, or gives up.  *)
FetchStep(o) ==
    /\ pc = "fetch"
    /\ calls' = calls + 1
    /\ naps' = naps + NapAfter(o)
    /\ data_level' = IF o = "records" /\ data_level = 0 THEN level ELSE data_level
    /\ LET g == got_any \/ o = "records"
           n == IF o = "records" THEN frames + 1 ELSE frames
       IN  IF sub < ranges[level]
           THEN /\ sub' = sub + 1
                /\ got_any' = g
                /\ frames' = n
                /\ UNCHANGED <<pc, level, df>>
           ELSE IF LevelSuffices(g)
           THEN /\ pc' = "store"
                /\ got_any' = g
                /\ frames' = n
                /\ UNCHANGED <<level, sub, df>>
           ELSE IF level < Len(ranges)
           THEN /\ level' = level + 1
                /\ sub' = 1
                /\ got_any' = FALSE
                /\ frames' = 0
                /\ UNCHANGED <<pc, df>>
           ELSE /\ pc' = "returned"
                /\ df' = EmptyFrame
                /\ got_any' = g
                /\ frames' = n
                /\ UNCHANGED <<level, sub>>
    /\ UNCHANGED <<run, done, k, station_frames, raised>>
    /\ UNCHANGED <<attempted, entry, interrupted, resumed, marked_done, marked_fail, paused>>
    /\ UNCHANGED <<httpVars, fnVars, frVars, rgVars>>

\* a download that writes each non-empty frame to the cache as it arrives
SubRangeM(o) ==
    /\ FetchStep(o)
    /\ cache' = [cache EXCEPT ![stid] = IF o = "records" THEN Records(stid, run) ELSE @]
    /\ UNCHANGED <<DONE_FILE, FAIL_FILE, yrVars>>

\* nothing is written while the levels are being requested
SubRange(o) ==
    /\ FetchStep(o)
    /\ UNCHANGED <<diskVars, yrVars>>

(* lines 836-839: the frames of the level are concatenated and written to the *)
(* cache file; w is what the write did: it succeeded, it raised before the    *)
(* file was touched, or it raised leaving a partial file                      *)
Store(w) ==
    /\ pc = "store"
    /\ pc' = "returned"
    /\ LET out == Records(stid, run)
       IN  CASE w = "written" ->
                  cache' = [cache EXCEPT ![stid] = out] /\ df' = out /\ raised' = FALSE
             [] w = "refused" ->
                  cache' = cache /\ df' = df /\ raised' = TRUE
             [] w = "partial" ->
                  cache' = [cache EXCEPT ![stid] = Corrupt] /\ df' = df /\ raised' = TRUE
    /\ UNCHANGED <<run, done, k, station_frames, level, sub, frames, got_any>>
    /\ UNCHANGED <<histVars, DONE_FILE, FAIL_FILE, httpVars, fnVars, frVars, rgVars>>

(* lines 867-872: the call returned; the frame is kept and the station is *)
(* appended to the done file                                              *)
MarkDone ==
    /\ pc = "returned"
    /\ ~raised
    /\ station_frames' = Append(station_frames, <<stid, df>>)
    /\ DONE_FILE' = DONE_FILE \cup {stid}
    /\ marked_done' = marked_done \cup {stid}
    /\ pc' = "pause"
    /\ UNCHANGED <<run, done, k, level, sub, frames, got_any, df, raised>>
    /\ UNCHANGED <<attempted, calls, entry, data_level, interrupted, resumed, marked_fail, paused, naps>>
    /\ UNCHANGED <<FAIL_FILE, cache, httpVars, fnVars, callVars>>

\* a loop without the except clause: the exception ends the run
MarkFailM ==
    /\ pc = "returned"
    /\ raised
    /\ pc' = "idle"
    /\ UNCHANGED <<run, done, k, station_frames, level, sub, frames, got_any, df, raised>>
    /\ UNCHANGED <<histVars, diskVars, httpVars, fnVars, callVars>>

(* lines 873-875: the call raised; the station is appended to the failed file *)
MarkFail ==
    /\ pc = "returned"
    /\ raised
    /\ FAIL_FILE' = FAIL_FILE \cup {stid}
    /\ marked_fail' = marked_fail \cup {stid}
    /\ pc' = "pause"
    /\ UNCHANGED <<run, done, k, station_frames, level, sub, frames, got_any, df, raised>>
    /\ UNCHANGED <<attempted, calls, entry, data_level, interrupted, resumed, marked_done, paused, naps>>
    /\ UNCHANGED <<DONE_FILE, cache, httpVars, fnVars, callVars>>

(* line 876: the pause between stations, then the next station *)
Pause ==
    /\ pc = "pause"
    /\ paused' = TRUE
    /\ k' = k + 1
    /\ pc' = "loop"
    /\ UNCHANGED <<run, done, station_frames, level, sub, frames, got_any, df, raised>>
    /\ UNCHANGED <<attempted, calls, entry, data_level, interrupted, resumed, marked_done, marked_fail, naps>>
    /\ UNCHANGED <<diskVars, httpVars, fnVars, callVars>>

(* lines 878-887: every station was considered; the tables are written *)
Finish ==
    /\ pc = "loop"
    /\ k > NumStations
    /\ pc' = "finished"
    /\ UNCHANGED <<run, done, k, station_frames, level, sub, frames, got_any, df, raised>>
    /\ UNCHANGED <<histVars, diskVars, httpVars, fnVars, callVars>>

(* The process is killed: what is in memory is lost, the disk stays *)
Kill ==
    /\ pc \in {"loop", "fetch", "store", "returned", "pause"}
    /\ pc' = "idle"
    /\ interrupted' = IF pc \in {"fetch", "store"} THEN stid ELSE interrupted
    /\ resumed' = FALSE
    /\ done' = {}
    /\ k' = 1
    /\ station_frames' = <<>>
    /\ level' = 1 /\ sub' = 1 /\ frames' = 0 /\ got_any' = FALSE
    /\ df' = EmptyFrame /\ raised' = FALSE
    /\ UNCHANGED <<run, attempted, calls, entry, data_level, marked_done, marked_fail, paused, naps>>
    /\ UNCHANGED <<diskVars, httpVars, fnVars, callVars>>

----------------------------------------------------------------------------
(* Tables: missing cells, timestamps, the arguments the functions are given *)

\* a missing cell of a numeric column (float NaN); every number of the
\* exploration is >= 0
NaN == -1
isna(x) == x = NaN
Abs(x) == IF x < 0 THEN 0 - x ELSE x
Range(f) == {f[n] : n \in DOMAIN f}

\* a pandas Timestamp at one-second resolution, and the missing one
NaT == [y |-> 0, m |-> 0, d |-> 0, s |-> 0]
Timestamp(yy, mm, dd, ss) == [y |-> yy, m |-> mm, d |-> dd, s |-> ss]
Date(yy, mm, dd) == Timestamp(yy, mm, dd, 0)

\* a < b and a <= b on timestamps
Before(a, b) ==
    \/ a.y < b.y
    \/ a.y = b.y /\ a.m < b.m
    \/ a.y = b.y /\ a.m = b.m /\ a.d < b.d
    \/ a.y = b.y /\ a.m = b.m /\ a.d = b.d /\ a.s < b.s
NotAfter(a, b) == a = b \/ Before(a, b)

----------------------------------------------------------------------------
(* _active_mask_for_year, lines 649-664.  The inventory columns are datetime *)
(* already (line 613), so _ensure_datetime returns them as they are.         *)

y0(yr) == Timestamp(yr, 1, 1, 0)
y1(yr) == Timestamp(yr, 12, 31, LAST_SECOND)

\* line 662
alta_ok(row, yr) == row.fechaAlta = NaT \/ NotAfter(row.fechaAlta, y1(yr))
\* line 663
baja_okM(row, yr) == row.fechaBaja = NaT \/ Before(y0(yr), row.fechaBaja)
baja_ok(row, yr) == row.fechaBaja = NaT \/ NotAfter(y0(yr), row.fechaBaja)

active_mask_for_year(st, yr) ==
    [n \in 1..Len(st) |-> alta_ok(st[n], yr) /\ baja_ok(st[n], yr)]

(* the call _active_mask_for_year(stations, year) *)
ActiveMask ==
    /\ fn_pc = "input"
    /\ fn_pc' = "mask"
    /\ active_mask' = active_mask_for_year(stations, year)
    /\ UNCHANGED <<year, stations, perfiles, order, assigned, month_col, clima_station, imputed>>
    /\ UNCHANGED <<httpVars, diskVars, runVars, histVars, callVars>>

----------------------------------------------------------------------------
(* assign_nearest_station, lines 666-752 *)

\* lines 685, 690: dropna(subset=["lat","lon"])
HasCoordsM(row) == ~isna(row.lat)
HasCoords(row) == ~isna(row.lat) /\ ~isna(row.lon)
dropna(t) == SelectSeq(t, HasCoords)

\* lines 698-706 for two points of one meridian (every longitude of the
\* exploration is 0): dl = 0, a = sin(dphi/2)^2, c = |dphi|, so the distance is
\* 6371 * |dphi| with dphi in radians (pi taken as 355/113), in whole km
haversine_km(p, s) == (EARTH_RADIUS_KM * 355 * Abs(s.lat - p.lat)) \div (113 * 180)

dist_km(pfv, st) ==
    [a \in 1..Len(pfv) |-> [j \in 1..Len(st) |-> haversine_km(pfv[a], st[j])]]

\* line 709: np.argsort of one row: a permutation that puts the distances in
\* ascending order; the order of equal distances is not specified by the sort
Orders(n) == {f \in [1..n -> 1..n] : \A a, b \in 1..n : f[a] = f[b] => a = b}
IsArgsort(ord, d) == \A a, b \in 1..Len(d) : a < b => d[ord[a]] <= d[ord[b]]

\* line 722: int(np.argmax(active_ord)), as a 1-based position
FirstActiveM(ord, mask) == 1
FirstActive(ord, mask) ==
    CHOOSE n \in 1..Len(ord) : mask[ord[n]] /\ \A a \in 1..(n - 1) : ~mask[ord[a]]

\* lines 717-744: the row of one valid profile
Assignment(p, st, ord, d, mask) ==
    IF \E n \in 1..Len(ord) : mask[ord[n]]
    THEN LET pos == FirstActive(ord, mask)
         IN  [profile_id |-> p.profile_id,
              nearest_station |-> st[ord[pos]].indicativo,
              distance_km |-> d[ord[pos]],
              station_active_2017 |-> TRUE,
              station_rank_used |-> pos]
    ELSE [profile_id |-> p.profile_id,
          nearest_station |-> st[ord[1]].indicativo,
          distance_km |-> d[ord[1]],
          station_active_2017 |-> FALSE,
          station_rank_used |-> 1]

NoResult == [kind |-> "none", rows |-> <<>>]
ValueError == [kind |-> "ValueError", rows |-> <<>>]
Frame(t) == [kind |-> "frame", rows |-> t]

(* the call assign_nearest_station(perfiles, stations, year) *)
Assign ==
    /\ fn_pc = "input"
    /\ fn_pc' = "assigned"
    /\ LET pfv == dropna(perfiles)
           st == dropna(stations)
       IN  IF pfv = <<>> \/ st = <<>>
           THEN assigned' = ValueError /\ UNCHANGED <<active_mask, order>>
           ELSE LET mask == active_mask_for_year(st, year)
                    d == dist_km(pfv, st)
                IN  /\ active_mask' = mask
                    /\ \E o \in [1..Len(pfv) -> Orders(Len(st))] :
                          /\ \A a \in 1..Len(pfv) : IsArgsort(o[a], d[a])
                          /\ order' = o
                          /\ assigned' = Frame([a \in 1..Len(pfv) |->
                                                   Assignment(pfv[a], st, o[a], d[a], mask)])
    /\ UNCHANGED <<year, stations, perfiles, month_col, clima_station, imputed>>
    /\ UNCHANGED <<httpVars, diskVars, runVars, histVars, callVars>>

----------------------------------------------------------------------------
(* impute_station_climate_2017, lines 889-918, for one numeric column (tmed): *)
(* the three fills are applied to every column of num_cols separately         *)

\* pd.to_datetime(fecha).dt.month
Month(f) == CASE f = "2017-01-15" -> 1
              [] f = "2017-02-15" -> 2
              [] f = "2017-03-15" -> 3

\* the median of the non-missing numbers of a sequence (NaN when there is none).
\* The numbers of the exploration are multiples of 8, so that the midpoints of
\* the three successive fills are whole.
Median(t) ==
    LET v == SelectSeq(t, LAMBDA x : ~isna(x))
        n == Len(v)
        Kth(a) == CHOOSE x \in Range(v) :
                     /\ Cardinality({j \in 1..n : v[j] < x}) < a
                     /\ a <= Cardinality({j \in 1..n : v[j] <= x})
    IN  IF n = 0 THEN NaN
        ELSE IF n % 2 = 1 THEN Kth((n + 1) \div 2)
        ELSE (Kth(n \div 2) + Kth(n \div 2 + 1)) \div 2

\* Series.fillna(m): a missing cell takes m, any other cell stays
fillnaM(x, m) == m
fillna(x, m) == IF isna(x) THEN m ELSE x

\* lines 900-902: the month column is derived when the table has none
with_month(t) ==
    IF month_col THEN t
    ELSE [n \in 1..Len(t) |-> [t[n] EXCEPT !.month = Month(t[n].fecha)]]

\* groupby(keys)[col].transform("median"): each row gets the median of its group
by_station_monthM(a, b) == a.nearest_station = b.nearest_station
by_station_month(a, b) == a.nearest_station = b.nearest_station /\ a.month = b.month
by_station(a, b) == a.nearest_station = b.nearest_station
whole_table(a, b) == TRUE
same_group(keys, a, b) ==
    CASE keys = "station_month" -> by_station_month(a, b)
      [] keys = "station" -> by_station(a, b)
      [] OTHER -> whole_table(a, b)

group_median(t, n, keys) ==
    Median([j \in 1..Len(t) |-> IF same_group(keys, t[j], t[n]) THEN t[j].tmed ELSE NaN])

fill_from(t, src, keys) ==
    [n \in 1..Len(t) |-> [t[n] EXCEPT !.tmed = fillna(@, group_median(src, n, keys))]]

\* lines 906-908, 910-912, 914-916: each median is taken from the table as the
\* fill before it left it
fill1(t) == fill_from(t, t, "station_month")
fill2M(t, t0) == fill_from(t, t0, "station")
fill2(t, t0) == fill_from(t, t, "station")
fill3M(t) == t
fill3(t) == fill_from(t, t, "global")

impute(t) ==
    IF t = <<>> THEN <<>>
    ELSE LET t0 == with_month(t) IN fill3(fill2(fill1(t0), t0))

(* the call impute_station_climate_2017(clima_station) *)
Impute ==
    /\ fn_pc = "input"
    /\ fn_pc' = "imputed"
    /\ imputed' = impute(clima_station)
    /\ UNCHANGED <<year, stations, perfiles, active_mask, order, assigned, month_col, clima_station>>
    /\ UNCHANGED <<httpVars, diskVars, runVars, histVars, callVars>>

----------------------------------------------------------------------------
(* The arguments explored *)

\* no table function has been called
InitFn ==
    /\ fn_pc = "idle"
    /\ year = DEFAULT_YEAR
    /\ stations = <<>>
    /\ perfiles = <<>>
    /\ active_mask = <<>>
    /\ order = <<>>
    /\ assigned = NoResult
    /\ month_col = TRUE
    /\ clima_station = <<>>
    /\ imputed = <<>>

StationRow(n, la, lo, alta, baja) ==
    [indicativo |-> n, lat |-> la, lon |-> lo, fechaAlta |-> alta, fechaBaja |-> baja]
ProfileRow(n, la, lo) == [profile_id |-> n, lat |-> la, lon |-> lo]

\* dates around the ends of the years explored, and the last second of 2017
Years == {2016, 2017}
Dates == {NaT, Date(2015, 12, 31), Date(2016, 1, 1), Date(2016, 12, 31),
          Date(2017, 1, 1), Date(2017, 12, 31), Timestamp(2017, 12, 31, LAST_SECOND),
          Date(2018, 1, 1)}

InitMask ==
    /\ fn_pc = "input"
    /\ year \in Years
    /\ \E len \in 1..MaxMaskRows :
          stations \in [1..len -> {StationRow(0, 0, 0, a, b) : a \in Dates, b \in Dates}]
    /\ perfiles = <<>>
    /\ active_mask = <<>>
    /\ order = <<>>
    /\ assigned = NoResult
    /\ month_col = TRUE
    /\ clima_station = <<>>
    /\ imputed = <<>>

\* points of the meridian, in degrees of latitude; a station is open-ended or
\* deactivated at the end of 2016
StationCoords == {<<NaN, 0>>, <<0, 0>>, <<2, 0>>, <<3, 0>>}
ProfileCoords == {<<NaN, 0>>, <<1, NaN>>, <<1, 0>>, <<2, 0>>}

InitAssign ==
    /\ fn_pc = "input"
    /\ year = DEFAULT_YEAR
    /\ \E c \in [1..NumInventory -> StationCoords],
          b \in [1..NumInventory -> {NaT, Date(2016, 12, 31)}] :
          stations = [n \in 1..NumInventory |-> StationRow(n, c[n][1], c[n][2], NaT, b[n])]
    /\ \E c \in [1..NumProfiles -> ProfileCoords] :
          perfiles = [n \in 1..NumProfiles |-> ProfileRow(n, c[n][1], c[n][2])]
    /\ active_mask = <<>>
    /\ order = <<>>
    /\ assigned = NoResult
    /\ month_col = TRUE
    /\ clima_station = <<>>
    /\ imputed = <<>>

\* daily records of two stations; clima_station is the concatenation of the
\* per-station frames (line 878), so the rows of a station are contiguous; the
\* frame of a station lists its days in calendar order (the sub-ranges are
\* requested and concatenated in that order, lines 817-836); and a month
\* column, when there is one, is the month of fecha (line 760)
Fechas == {"2017-01-15", "2017-02-15", "2017-03-15"}
Values == {NaN, 0, 16}
DailyRows(stn) == [nearest_station : {stn}, fecha : Fechas, month : {NaN}, tmed : Values]
Frames(stn, len) ==
    {f \in [1..len -> DailyRows(stn)] :
        \A a, b \in 1..len : a < b => Month(f[a].fecha) <= Month(f[b].fecha)}

InitImpute ==
    /\ fn_pc = "input"
    /\ month_col \in BOOLEAN
    /\ \E la \in 0..MaxRows : \E lb \in 0..(MaxRows - la) :
          \E fa \in Frames("A", la), fb \in Frames("B", lb) :
             clima_station =
                [n \in 1..(la + lb) |->
                    LET row == (fa \o fb)[n]
                    IN  [row EXCEPT !.month = IF month_col THEN Month(row.fecha) ELSE NaN]]
    /\ year = DEFAULT_YEAR
    /\ stations = <<>>
    /\ perfiles = <<>>
    /\ active_mask = <<>>
    /\ order = <<>>
    /\ assigned = NoResult
    /\ imputed = <<>>

----------------------------------------------------------------------------
(* The sub-range table of get_daily_climate_year, lines 807-814, and *)
(* _last_day_of_month, lines 71-73                                    *)

\* calendar.isleap and calendar.mdays, as calendar.monthrange uses them
isleap(yy) == yy % 4 = 0 /\ (yy % 100 # 0 \/ yy % 400 = 0)
mdays == <<31, 28, 31, 30, 31, 30, 31, 31, 30, 31, 30, 31>>

\* a month length that knows no leap year
last_day_of_monthM(yy, mm) == mdays[mm]
\* lines 71-73: calendar.monthrange(year, month)[1]
last_day_of_month(yy, mm) == mdays[mm] + (IF mm = 2 /\ isleap(yy) THEN 1 ELSE 0)

\* the day the string f"{year}-{m:02d}-{d:02d}" names
Ymd(yy, mm, dd) == [y |-> yy, m |-> mm, d |-> dd]

\* lines 808-814: the list ranges: one list of (start, end) pairs per level
build_ranges(yy) ==
    << <<  <<Ymd(yy, 1, 1), Ymd(yy, 12, 31)>>  >>,
       <<  <<Ymd(yy, 1, 1), Ymd(yy, 6, 30)>>, <<Ymd(yy, 7, 1), Ymd(yy, 12, 31)>>  >>,
       <<  <<Ymd(yy, 1, 1), Ymd(yy, 3, 31)>>, <<Ymd(yy, 4, 1), Ymd(yy, 6, 30)>>,
           <<Ymd(yy, 7, 1), Ymd(yy, 9, 30)>>, <<Ymd(yy, 10, 1), Ymd(yy, 12, 31)>>  >>,
       [mm \in 1..12 |-> <<Ymd(yy, mm, 1), Ymd(yy, mm, last_day_of_month(yy, mm))>>] >>

(* get_daily_climate_year is called for a year: the table is built *)
InitYears ==
    /\ fn_pc = "input"
    /\ year \in MinYear..MaxYear
    /\ stations = <<>>
    /\ perfiles = <<>>
    /\ active_mask = <<>>
    /\ order = <<>>
    /\ assigned = NoResult
    /\ month_col = FALSE
    /\ clima_station = <<>>
    /\ imputed = <<>>

BuildRanges ==
    /\ fn_pc = "input"
    /\ fn_pc' = "ranges"
    /\ year_ranges' = build_ranges(year)
    /\ UNCHANGED <<year, stations, perfiles, active_mask, order, assigned, month_col,
                   clima_station, imputed>>
    /\ UNCHANGED <<httpVars, diskVars, runVars, histVars, frVars, yrVars>>

----------------------------------------------------------------------------
(* get_daily_climate_year, lines 816-839, with the rows of the frames.  A    *)
(* sub-range that returned records gives a frame of one row, labelled with   *)
(* its level and its place in the level.                                     *)

SubFrame(l, j) == <<[level |-> l, sub |-> j]>>

\* a concatenation that puts each frame in front of the ones before it
RECURSIVE concatM(_)
concatM(fs) == IF fs = <<>> THEN <<>> ELSE concatM(Tail(fs)) \o Head(fs)

\* line 836: pd.concat(frames, ignore_index=True): the rows of the frames, in
\* the order of the list
RECURSIVE concat(_)
concat(fs) == IF fs = <<>> THEN <<>> ELSE Head(fs) \o concat(Tail(fs))

(* lines 796-816: the call, as Enter; the lists are empty *)
EnterY ==
    /\ Enter
    /\ frame_list' = <<>>
    /\ out_rows' = <<>>
    /\ asked' = <<>>
    /\ got' = {}
    /\ UNCHANGED cache_rows

(* lines 819-829: one sub-range, as FetchStep; line 819 empties the list at *)
(* the start of a level, line 828 appends a non-empty frame                 *)
SubRangeY(o) ==
    /\ FetchStep(o)
    /\ asked' = Append(asked, <<level, sub>>)
    /\ got' = IF o = "records" THEN got \cup {<<level, sub>>} ELSE got
    /\ frame_list' = IF level' # level THEN <<>>
                     ELSE IF o = "records" THEN Append(frame_list, SubFrame(level, sub))
                     ELSE frame_list
    /\ UNCHANGED <<diskVars, out_rows, cache_rows>>

(* lines 836-839: out is the concatenation; it is written when not empty *)
StoreY(w) ==
    /\ Store(w)
    /\ out_rows' = concat(frame_list)
    /\ cache_rows' = IF w = "written" /\ concat(frame_list) # <<>>
                     THEN concat(frame_list) ELSE cache_rows
    /\ UNCHANGED <<frame_list, asked, got>>

----------------------------------------------------------------------------
(* _fetch_range, lines 774-794.  Each _get_json call is taken as a whole: it *)
(* raises, or it returns the decoded body (None for an empty body).          *)

\* line 774 and line 823: meta_tries=3
meta_tries == 3

\* the secondary URLs the metadata endpoint hands out
Urls == {"short1", "short2"}

\* what _get_json(meta_url) can return: None, or a dict whose "datos" key is
\* absent, empty, or a secondary URL
NoneJson == [type |-> "None", datos |-> "absent"]
MetaDict(d) == [type |-> "dict", datos |-> d]
\* _get_json(meta_url) raised instead of returning
MetaRaised == [type |-> "raise", datos |-> "absent"]
MetaValues == {NoneJson} \cup {MetaDict(d) : d \in Urls \cup {"absent", ""}}

\* meta.get("datos"): None when the key is absent; AttributeError on None is
\* handled where get is called
get_datos(m) == IF m.datos = "absent" THEN "None" ELSE m.datos

\* line 778, negated: meta and "datos" in meta and meta.get("datos")
HasDatos(m) == m.type = "dict" /\ m.datos # "absent" /\ get_datos(m) \notin {"", "None"}

\* session.get(url) can get an answer only from a URL; None and "" raise
Fetchable(u) == u \in Urls

\* a refresh that keeps the secondary URL it had
RefreshedShortM(m, old) == old
\* line 791: short = meta.get("datos")
RefreshedShort(m, old) == get_datos(m)

\* line 787: the cleaned frame of a non-empty payload
DailyFrame == [state |-> "records", st |-> 0, rn |-> 0]

InitFr ==
    /\ fr_pc = "idle"
    /\ meta = NoneJson
    /\ short = "None"
    /\ fr_k = 0
    /\ fr_df = EmptyFrame
    /\ meta_requests = 0
    /\ fetched = <<>>
    /\ errors_n = 0

InitYr ==
    /\ frame_list = <<>>
    /\ out_rows = <<>>
    /\ cache_rows = <<>>
    /\ asked = <<>>
    /\ got = {}

InitRg == year_ranges = <<>>

InitCall == InitFr /\ InitYr /\ InitRg

(* line 774: _fetch_range is called *)
FetchRange ==
    /\ fr_pc = "idle"
    /\ fr_pc' = "meta"
    /\ UNCHANGED <<meta, short, fr_k, fr_df, meta_requests, fetched, errors_n>>

(* lines 777-781: the metadata request; o is what _get_json did *)
FetchMeta(o) ==
    /\ fr_pc = "meta"
    /\ meta_requests' = meta_requests + 1
    /\ IF o = MetaRaised
       THEN fr_pc' = "raised" /\ UNCHANGED <<meta, short>>
       ELSE /\ meta' = o
            /\ IF HasDatos(o)
               THEN fr_pc' = "short" /\ short' = o.datos
               ELSE fr_pc' = "returned" /\ short' = short
    /\ UNCHANGED <<fr_k, fr_df, fetched, errors_n>>

(* lines 782-789: the secondary fetch of iteration k *)
FetchShort(o) ==
    /\ fr_pc = "short"
    /\ fr_k < meta_tries
    /\ o = "raise" \/ Fetchable(short)
    /\ fetched' = Append(fetched, short)
    /\ CASE o = "payload" -> fr_pc' = "returned" /\ fr_df' = DailyFrame /\ errors_n' = errors_n
         [] o = "empty" -> fr_pc' = "sleep" /\ fr_df' = fr_df /\ errors_n' = errors_n
         [] o = "raise" -> fr_pc' = "refresh" /\ fr_df' = fr_df /\ errors_n' = errors_n + 1
    /\ UNCHANGED <<meta, short, fr_k, meta_requests>>

(* lines 789-791: the except clause asks the metadata endpoint again; an   *)
(* exception here, from _get_json or from None.get, leaves _fetch_range    *)
Refresh(o) ==
    /\ fr_pc = "refresh"
    /\ meta_requests' = meta_requests + 1
    /\ IF o = MetaRaised
       THEN fr_pc' = "raised" /\ UNCHANGED <<meta, short>>
       ELSE /\ meta' = o
            /\ IF o.type = "None"
               THEN fr_pc' = "raised" /\ short' = short
               ELSE fr_pc' = "sleep" /\ short' = RefreshedShort(o, short)
    /\ UNCHANGED <<fr_k, fr_df, fetched, errors_n>>

(* lines 792-793: the sleep that ends an iteration, then the next k or the *)
(* empty frame after the loop                                              *)
Sleep ==
    /\ fr_pc = "sleep"
    /\ fr_k' = fr_k + 1
    /\ fr_pc' = IF fr_k + 1 < meta_tries THEN "short" ELSE "returned"
    /\ UNCHANGED <<meta, short, fr_df, meta_requests, fetched, errors_n>>

----------------------------------------------------------------------------
(* Specifications *)

Init == InitHttp /\ InitDisk /\ InitRun /\ InitFn /\ InitCall

Step ==
    \/ StartRun
    \/ Skip
    \/ Enter /\ UNCHANGED yrVars
    \/ \E o \in {"records", "empty", "error"} : SubRange(o)
    \/ \E w \in {"written", "refused", "partial"} : Store(w) /\ UNCHANGED yrVars
    \/ MarkDone
    \/ MarkFail
    \/ Pause
    \/ Finish

Next == Step \/ Kill

\* runs, kills and restarts of the download
Spec == Init /\ [][Next]_vars

NextHttp ==
    \/ \E t \in 0..MaxTries : Call(t) /\ UNCHANGED <<diskVars, runVars, histVars, fnVars, callVars>>
    \/ \E resp \in Outcomes : Request(resp) /\ UNCHANGED <<diskVars, runVars, histVars, fnVars, callVars>>
    \/ \E j \in 0..MaxJitter : Backoff(j) /\ UNCHANGED <<diskVars, runVars, histVars, fnVars, callVars>>
    \/ Exhausted /\ UNCHANGED <<diskVars, runVars, histVars, fnVars, callVars>>

\* a process that calls _get_json again and again
SpecHttp == Init /\ [][NextHttp]_vars

\* the disk as earlier runs, completed or killed, can have left it
InitDiskAny ==
    /\ DONE_FILE \in SUBSET (1..NumStations)
    /\ FAIL_FILE \in SUBSET (1..NumStations)
    /\ cache \in [1..NumStations -> {NoFile, Corrupt} \cup {Records(s, 0) : s \in 1..NumStations}]
    /\ \A s \in 1..NumStations : cache[s].state = "records" => cache[s].st = s

\* one run that is never killed, on any such disk: every request returns or
\* raises, so the sequential program always takes its next step
InitLive == InitHttp /\ InitDiskAny /\ run = MaxRuns - 1 /\ InitProcess /\ InitFn /\ InitCall

SpecLive == InitLive /\ [][Step]_vars /\ WF_vars(Step)

\* the table functions, each applied once to every argument explored
InitMaskAll == InitHttp /\ InitDisk /\ InitRun /\ InitMask /\ InitCall
SpecMask == InitMaskAll /\ [][ActiveMask]_vars

InitAssignAll == InitHttp /\ InitDisk /\ InitRun /\ InitAssign /\ InitCall
SpecAssign == InitAssignAll /\ [][Assign]_vars

InitImputeAll == InitHttp /\ InitDisk /\ InitRun /\ InitImpute /\ InitCall
SpecImpute == InitImputeAll /\ [][Impute]_vars

\* one call of _fetch_range against every behaviour of the two endpoints
NextFetch ==
    \/ FetchRange /\ UNCHANGED <<httpVars, diskVars, runVars, histVars, fnVars, yrVars, rgVars>>
    \/ \E o \in MetaValues \cup {MetaRaised} :
          FetchMeta(o) /\ UNCHANGED <<httpVars, diskVars, runVars, histVars, fnVars, yrVars, rgVars>>
    \/ \E o \in {"payload", "empty", "raise"} :
          FetchShort(o) /\ UNCHANGED <<httpVars, diskVars, runVars, histVars, fnVars, yrVars, rgVars>>
    \/ \E o \in MetaValues \cup {MetaRaised} :
          Refresh(o) /\ UNCHANGED <<httpVars, diskVars, runVars, histVars, fnVars, yrVars, rgVars>>
    \/ Sleep /\ UNCHANGED <<httpVars, diskVars, runVars, histVars, fnVars, yrVars, rgVars>>

SpecFetch == Init /\ [][NextFetch]_vars

\* one call of get_daily_climate_year, for the first station of a run
NextYear ==
    \/ StartRun
    \/ EnterY
    \/ \E o \in {"records", "empty", "error"} : SubRangeY(o)
    \/ \E w \in {"written", "refused", "partial"} : StoreY(w)

SpecYear == Init /\ [][NextYear]_vars

\* the sub-range table, built once for every year explored
InitRangesAll == InitHttp /\ InitDisk /\ InitRun /\ InitYears /\ InitCall
SpecRanges == InitRangesAll /\ [][BuildRanges]_vars

----------------------------------------------------------------------------
(* Claims about _get_json, under SpecHttp *)

\* C1: when attempts 1..N-1 of a call each failed transiently and attempt N
\* succeeds (N <= tries), the call has returned the payload decoded from attempt
\* N's body, after exactly N requests, and raised nothing.
C1_RetryThenSuccess ==
    (requests_n >= 1 /\ failures_n = requests_n - 1 /\ Success(r))
        => /\ gj_pc = "returned"
           /\ ret = Json(r.body)
           /\ exc = "nothing"
           /\ requests_n <= tries
           /\ i = requests_n

C1_Witness ==
    /\ gj_pc = "returned"
    /\ tries = 5
    /\ requests_n = 3
    /\ failures_n = 2
    /\ waits_n = 2
    /\ Success(r)
    /\ ret = "list2"

\* C2: when every attempt of a call with tries = T failed transiently, the call
\* raises the fetch error after exactly T requests and never returns a value;
\* no call issues more than T requests, for any T >= 0.
C2_AllTransientRaises ==
    /\ requests_n <= tries
    /\ (requests_n >= 1 /\ failures_n = requests_n) => gj_pc # "returned"
    /\ (gj_pc = "raised" /\ failures_n = requests_n)
          => (requests_n = tries /\ exc = "RuntimeError")

\* C3: when an attempt receives a 4xx response other than 429, the call fails at
\* once: it has raised, after exactly i requests, with no backoff wait after
\* that response and no further request.
C3_PermanentAborts ==
    Permanent4xx(r)
        => /\ gj_pc = "raised"
           /\ exc = "RuntimeError"
           /\ requests_n = i
           /\ ~waited

\* the statuses C19 names; the code treats every 5xx alike (lines 582-587)
RetryStatuses == {429, 500, 502, 503, 504}

\* C19: when an attempt of a call has received a response with status 429 or
\* 5xx and attempts remain (i < tries), the call has neither returned nor raised
\* on it: it is about to sleep and loop, and the step after the sleep leaves it
\* in the loop with an attempt to issue.
C19_RetryableStatusRetries ==
    /\ [](( r.kind = "response" /\ r.status \in RetryStatuses
            /\ requests_n = i /\ i < tries ) => gj_pc = "sleep")
    /\ [][(gj_pc = "sleep" /\ i < tries) => (gj_pc' = "loop" /\ InRange(i', tries))]_vars

\* a success response that carries nothing: status 204, or 200 without a body
EmptySuccess(resp) ==
    resp.kind = "response" /\ (resp.status = 204 \/ (resp.status = 200 /\ resp.body = ""))

\* C20: a success response with status 204 or with no body makes the call
\* return None at once, with no exception, no further request and no backoff
\* wait; and a returned None tells such a response from a failure: a call whose
\* last attempt failed has raised, it has not returned.
C20_NoContentReturnsNone ==
    /\ EmptySuccess(r) => /\ gj_pc = "returned"
                          /\ ret = "None"
                          /\ exc = "nothing"
                          /\ requests_n = i
                          /\ ~waited
    /\ (gj_pc = "returned" /\ ret = "None") => EmptySuccess(r)
    /\ (gj_pc = "returned") => exc = "nothing"
    /\ (gj_pc = "raised") => ret = "nothing"

\* the deterministic part of the wait after attempt n, in tenths of a second
ClaimedBackoff(n) == Min(6 * (2 ^ (n - 1)), 50)

\* C23: a backoff wait follows failed attempt i exactly when attempt i+1 follows
\* it, so a finished call has waited once less than it has requested and a wait
\* is never followed by the end of the loop; the wait is min(0.6*2^(i-1), 5.0) s
\* plus a jitter below 0.5 s, its deterministic part non-decreasing in i and at
\* most the cap.
C23_BackoffBetweenAttempts ==
    /\ waited => (wait - ClaimedBackoff(i - 1)) \in 0..4
    /\ \A n \in 1..MaxTries :
          ClaimedBackoff(n) <= ClaimedBackoff(n + 1) /\ ClaimedBackoff(n) <= 50
    /\ (waited /\ gj_pc = "loop") => InRange(i, tries)
    /\ (gj_pc \in {"returned", "raised"} /\ requests_n >= 1) => waits_n = requests_n - 1

\* C24: every attempt, retries included, is one use of the shared session: an
\* attempt made when there is no session or when the session has served 25
\* attempts is served by a fresh session as its first use, any other attempt
\* adds one use to the current session, and nothing else touches the session;
\* so the use counter of a session is within 1..25.
C24_SessionRotation ==
    /\ [](IF SESSION = "None" THEN SESSION_USES = 0 /\ requests_n = 0
          ELSE SESSION_USES \in 1..25)
    /\ [][requests_n' = requests_n + 1
            => IF SESSION = "None" \/ SESSION_USES = 25
               THEN SESSION' = "session" /\ SESSION_USES' = 1
               ELSE SESSION' = SESSION /\ SESSION_USES' = SESSION_USES + 1]_vars
    /\ [][requests_n' # requests_n + 1 => UNCHANGED <<SESSION, SESSION_USES>>]_vars

C24_Witness ==
    /\ gj_pc = "sleep"
    /\ requests_n = 3
    /\ SESSION_USES = 1

----------------------------------------------------------------------------
(* Claims about the download, under Spec *)

InCall == pc \in {"fetch", "store", "returned"}
Attempted(s) == \E n \in 1..Len(attempted) : attempted[n] = s
Times(s) == Cardinality({n \in 1..Len(attempted) : attempted[n] = s})
AllSubRanges == ranges[1] + ranges[2] + ranges[3] + ranges[4]

\* C4: once a sub-request of a level has returned records, every later
\* sub-request of the call is of that same level: no finer level is requested.
C4_NoFinerLevelAfterData ==
    (pc \in {"fetch", "store"} /\ data_level # 0) => level = data_level

C4_Witness ==
    /\ pc = "store"
    /\ level = 3
    /\ data_level = 3
    /\ frames = 1
    /\ calls = ranges[1] + ranges[2] + ranges[3]

C6_AttemptedIffNotDone ==
    pc # "idle"
        => \A n \in 1..NumStations :
              Attempted(unique_stations[n])
                 <=> /\ unique_stations[n] \notin done
                     /\ \/ n < k
                        \/ n = k /\ pc \in {"fetch", "store", "returned", "pause"}

C6_Witness ==
    /\ pc = "finished"
    /\ \E s \in FAIL_FILE \ marked_fail : s \notin done /\ Attempted(s)
    /\ \E s \in done : ~Attempted(s)

\* C7: a station whose download exhausted the four levels without a record is
\* recorded as failed and not as done.
C7_ExhaustedMarkedFailed ==
    (pc = "pause" /\ calls = AllSubRanges /\ data_level = 0)
        => (stid \in FAIL_FILE /\ stid \notin DONE_FILE)

\* C8: a run that is not killed terminates, and when it has terminated every
\* station not done at startup was attempted exactly once and is recorded as
\* done or as failed by this run, whatever happened to the stations before it.
C8_RunTerminates ==
    /\ [](pc = "loop" => <>(pc = "finished"))
    /\ [](pc = "finished"
            => \A s \in 1..NumStations :
                  s \notin done => (Times(s) = 1 /\ s \in marked_done \cup marked_fail))

C8_Witness ==
    /\ pc = "finished"
    /\ 1 \in marked_fail
    /\ \A s \in 2..NumStations : s \in marked_done

\* C9: while a station's year fetch is in progress nothing has been written to
\* its cache entry and it is not in the done file, so a kill at that point
\* leaves neither; the next run that reaches the station fetches it again from
\* level 1; and a cache entry changes only while its station is not done, the
\* records of a station marked done being in the cache already.
C9_KillMidFetch ==
    /\ [](pc \in {"fetch", "store"}
            => /\ cache[stid] = entry
               /\ cache[stid].state # "records"
               /\ stid \notin DONE_FILE)
    /\ [][(pc \in {"fetch", "store"} /\ pc' = "idle")
            => /\ interrupted' = stid
               /\ cache'[stid].state # "records"
               /\ stid \notin DONE_FILE']_vars
    /\ [][(pc = "loop" /\ k <= NumStations /\ stid = interrupted /\ pc' # "idle")
            => (pc' = "fetch" /\ k' = k /\ level' = 1 /\ sub' = 1 /\ calls' = 0)]_vars
    /\ [][\A s \in 1..NumStations :
            /\ cache'[s] # cache[s] => s \notin DONE_FILE'
            /\ (s \in DONE_FILE' \ DONE_FILE /\ df.state = "records") => cache[s] = df]_vars

C9_Witness ==
    /\ pc = "fetch"
    /\ resumed
    /\ run = 2
    /\ level = 1
    /\ calls = 0
    /\ attempted = <<2>>
    /\ 1 \in DONE_FILE
    /\ cache[1].state = "records"
    /\ cache[2].state = "NoFile"

\* C10 as stated: no station id is in both the done file and the failed file.
C10_Disjoint == DONE_FILE \cap FAIL_FILE = {}

\* C10 as amended: a run records no station as both done and failed, and never
\* records as failed a station that is in the done file; a station is in both
\* files only when an earlier run recorded it failed and a later one done.
C10_RunMarksDisjoint ==
    /\ marked_fail \cap DONE_FILE = {}
    /\ marked_done \cap marked_fail = {}
    /\ (DONE_FILE \cap FAIL_FILE) \subseteq (FAIL_FILE \ marked_fail)

C10_Witness ==
    /\ pc = "finished"
    /\ 1 \in DONE_FILE \cap FAIL_FILE
    /\ 1 \in marked_done
    /\ 2 \in marked_fail

\* C11: every station id in the done file, and so in the done set a run loads
\* from it, has a cache entry holding its records of the year.
C11_DoneImpliesCached ==
    \A s \in DONE_FILE \cup done : cache[s].state = "records"

----------------------------------------------------------------------------
(* Claims about assign_nearest_station, under SpecAssign *)

BothCoords(row) == row.lat # NaN /\ row.lon # NaN
ValidProfiles == {n \in 1..Len(perfiles) : BothCoords(perfiles[n])}
ValidStations == SelectSeq(stations, BothCoords)
RowsOf(id) == {a \in 1..Len(assigned.rows) : assigned.rows[a].profile_id = id}
OneRowEach ==
    /\ assigned.kind = "frame"
    /\ Len(assigned.rows) = Cardinality(ValidProfiles)
    /\ \A n \in 1..Len(perfiles) :
          Cardinality(RowsOf(perfiles[n].profile_id)) = IF n \in ValidProfiles THEN 1 ELSE 0

\* C12 as stated: given a station with valid coordinates, the call returns one
\* row for every profile with both coordinates and none for any other profile,
\* so as many rows as there are valid profiles.
C12_OneRowPerValidProfile ==
    (fn_pc = "assigned" /\ ValidStations # <<>>) => OneRowEach

\* C12 as amended: the same, given also a profile with both coordinates; when
\* no profile has both coordinates the call raises ValueError and returns no
\* table.
C12_OneRowPerValidProfileOrError ==
    /\ (fn_pc = "assigned" /\ ValidStations # <<>> /\ ValidProfiles # {}) => OneRowEach
    /\ (fn_pc = "assigned" /\ ValidProfiles = {}) => assigned = ValueError

C12_Witness ==
    /\ fn_pc = "assigned"
    /\ perfiles[1].lat # NaN /\ perfiles[1].lon = NaN
    /\ BothCoords(perfiles[2])
    /\ assigned.kind = "frame"
    /\ Len(assigned.rows) = 1
    /\ assigned.rows[1].profile_id = 2

\* C13: for every valid profile, with the stations in ascending order of
\* distance: when some station is active, the chosen station is active, every
\* station ranked before it is inactive, no active station is nearer, the rank is
\* its position in the order and the flag is true; when none is active, the
\* chosen station is the first of the order, at the least distance, with rank 1
\* and the flag false.  The flag is true exactly when the chosen station is
\* active.
C13_FirstActiveChosen ==
    (fn_pc = "assigned" /\ assigned.kind = "frame")
        => \A a \in 1..Len(assigned.rows) :
              LET row == assigned.rows[a]
                  ord == order[a]
                  d == dist_km(SelectSeq(perfiles, BothCoords), ValidStations)[a]
                  pos == row.station_rank_used
                  chosen == ord[pos]
              IN  /\ IsArgsort(ord, d)
                  /\ pos \in 1..Len(ValidStations)
                  /\ ValidStations[chosen].indicativo = row.nearest_station
                  /\ row.distance_km = d[chosen]
                  /\ row.station_active_2017 <=> active_mask[chosen]
                  /\ IF \E j \in 1..Len(ValidStations) : active_mask[j]
                     THEN /\ row.station_active_2017
                          /\ \A b \in 1..(pos - 1) : ~active_mask[ord[b]]
                          /\ \A j \in 1..Len(ValidStations) : active_mask[j] => d[chosen] <= d[j]
                     ELSE /\ ~row.station_active_2017
                          /\ pos = 1
                          /\ \A j \in 1..Len(ValidStations) : d[chosen] <= d[j]

C13_Witness ==
    /\ fn_pc = "assigned"
    /\ assigned.kind = "frame"
    /\ \E a \in 1..Len(assigned.rows) :
          /\ assigned.rows[a].station_rank_used = 2
          /\ assigned.rows[a].station_active_2017
          /\ ~active_mask[order[a][1]]
          /\ dist_km(SelectSeq(perfiles, BothCoords), ValidStations)[a][order[a][1]]
                < assigned.rows[a].distance_km

----------------------------------------------------------------------------
(* Claims about _active_mask_for_year, under SpecMask *)

\* the day of t is not later / not earlier than the day yy-mm-dd
DayNotAfter(t, yy, mm, dd) ==
    t.y < yy \/ (t.y = yy /\ (t.m < mm \/ (t.m = mm /\ t.d <= dd)))
DayNotBefore(t, yy, mm, dd) ==
    t.y > yy \/ (t.y = yy /\ (t.m > mm \/ (t.m = mm /\ t.d >= dd)))

\* C14: a station is active for year Y exactly when its activation date is
\* unset or not later than 31 December Y and its deactivation date is unset or
\* not earlier than 1 January Y: deactivated on 31 December Y-1 it is inactive,
\* deactivated on 1 January Y active, activated on 31 December Y active, and
\* activated on 1 January Y+1 inactive.
C14_ActiveExactlyWhenOverlaps ==
    fn_pc = "mask"
        => /\ Len(active_mask) = Len(stations)
           /\ \A n \in 1..Len(stations) :
                LET alta == stations[n].fechaAlta
                    baja == stations[n].fechaBaja
                IN  /\ active_mask[n]
                         <=> /\ (alta = NaT \/ DayNotAfter(alta, year, 12, 31))
                             /\ (baja = NaT \/ DayNotBefore(baja, year, 1, 1))
                    /\ baja = Date(year - 1, 12, 31) => ~active_mask[n]
                    /\ (baja = Date(year, 1, 1) /\ alta = NaT) => active_mask[n]
                    /\ (alta = Date(year, 12, 31) /\ baja = NaT) => active_mask[n]
                    /\ alta = Date(year + 1, 1, 1) => ~active_mask[n]

C14_Witness ==
    /\ fn_pc = "mask"
    /\ year = 2017
    /\ stations[1].fechaAlta = Date(2017, 12, 31)
    /\ stations[1].fechaBaja = Date(2017, 1, 1)
    /\ active_mask[1]

----------------------------------------------------------------------------
(* Claims about impute_station_climate_2017, under SpecImpute *)

Rows == 1..Len(clima_station)
\* the input values of the rows that share station (and month) with row n
MonthGroup(n) ==
    [j \in Rows |-> IF /\ clima_station[j].nearest_station = clima_station[n].nearest_station
                       /\ Month(clima_station[j].fecha) = Month(clima_station[n].fecha)
                    THEN clima_station[j].tmed ELSE NaN]
StationGroup(n) ==
    [j \in Rows |-> IF clima_station[j].nearest_station = clima_station[n].nearest_station
                    THEN clima_station[j].tmed ELSE NaN]
Dataset == [j \in Rows |-> clima_station[j].tmed]
Empty(t) == \A j \in DOMAIN t : t[j] = NaN

\* C15: after the call the numeric field has no null when the input has a
\* non-null value of it anywhere, and is null in every row, with nothing raised,
\* when the input has none.
C15_CompleteOrAllNull ==
    fn_pc = "imputed"
        => /\ Len(imputed) = Len(clima_station)
           /\ IF Empty(Dataset)
              THEN \A n \in Rows : imputed[n].tmed = NaN
              ELSE \A n \in Rows : imputed[n].tmed # NaN

C15_Witness ==
    /\ fn_pc = "imputed"
    /\ \E n, j \in Rows :
          /\ clima_station[n].nearest_station = "B"
          /\ Empty(StationGroup(n))
          /\ clima_station[j].tmed # NaN
          /\ imputed[n].tmed # NaN

\* C16: the call changes null cells only: a non-null input value is the output
\* value of its row, the station, date and month of every row are those of the
\* input, and the rows are as many and in the same order.
C16_OnlyNullsChange ==
    fn_pc = "imputed"
        => /\ Len(imputed) = Len(clima_station)
           /\ \A n \in Rows :
                /\ clima_station[n].tmed # NaN => imputed[n].tmed = clima_station[n].tmed
                /\ imputed[n].nearest_station = clima_station[n].nearest_station
                /\ imputed[n].fecha = clima_station[n].fecha
                /\ month_col => imputed[n].month = clima_station[n].month
                /\ imputed[n].month = Month(clima_station[n].fecha)

C16_Witness ==
    /\ fn_pc = "imputed"
    /\ ~month_col
    /\ Len(imputed) = MaxRows
    /\ \E n, j \in Rows :
          /\ n < j
          /\ clima_station[n].tmed = NaN /\ imputed[n].tmed = 8
          /\ clima_station[j].tmed = 16 /\ imputed[j].tmed = 16
          /\ clima_station[n].nearest_station = "A" /\ clima_station[j].nearest_station = "B"

\* C17: a null cell whose station and month hold a non-null input value is
\* filled with the median of the non-null input values of that station and
\* month, whatever the medians of the station and of the dataset are.
C17_MonthMedianFirst ==
    fn_pc = "imputed"
        => \A n \in Rows :
              (clima_station[n].tmed = NaN /\ ~Empty(MonthGroup(n)))
                 => imputed[n].tmed = Median(MonthGroup(n))

C17_Witness ==
    /\ fn_pc = "imputed"
    /\ \E n \in Rows :
          /\ clima_station[n].tmed = NaN
          /\ imputed[n].tmed = 0
          /\ Median(MonthGroup(n)) = 0
          /\ Median(StationGroup(n)) = 8
          /\ Median(Dataset) = 16

\* C18 as stated: a null cell whose station and month hold no value receives
\* the median of the non-null input values of its station, and when the station
\* holds none the median of the non-null input values of the dataset.
C18_FallbackFromInput ==
    fn_pc = "imputed"
        => \A n \in Rows :
              (clima_station[n].tmed = NaN /\ Empty(MonthGroup(n)))
                 => imputed[n].tmed = IF ~Empty(StationGroup(n))
                                      THEN Median(StationGroup(n))
                                      ELSE Median(Dataset)

\* the column once every null cell whose station and month hold a value has
\* that median, and once every cell still null whose station holds a value has
\* the median of the station's column as the first fill left it
AfterMonthFill ==
    [n \in Rows |-> IF clima_station[n].tmed = NaN THEN Median(MonthGroup(n))
                    ELSE clima_station[n].tmed]
StationAfterMonthFill(n) ==
    [j \in Rows |-> IF clima_station[j].nearest_station = clima_station[n].nearest_station
                    THEN AfterMonthFill[j] ELSE NaN]
AfterStationFill ==
    [n \in Rows |-> IF AfterMonthFill[n] = NaN THEN Median(StationAfterMonthFill(n))
                    ELSE AfterMonthFill[n]]

\* C18 as amended: a null cell whose station and month hold no value receives
\* the median of its station's column as the station-month fill left it (input
\* values and the values filled in at that level), and when the station holds
\* no value the median of the whole column as the first two fills left it.
C18_FallbackAfterFill ==
    fn_pc = "imputed"
        => \A n \in Rows :
              (clima_station[n].tmed = NaN /\ Empty(MonthGroup(n)))
                 => imputed[n].tmed = IF ~Empty(StationGroup(n))
                                      THEN Median(StationAfterMonthFill(n))
                                      ELSE Median(AfterStationFill)

C18_Witness ==
    /\ fn_pc = "imputed"
    /\ \E n \in Rows :
          /\ clima_station[n].tmed = NaN
          /\ Empty(MonthGroup(n))
          /\ Median(StationGroup(n)) = 8
          /\ Median(StationAfterMonthFill(n)) = 0
          /\ imputed[n].tmed = 0

----------------------------------------------------------------------------
(* Further claims about the download, under Spec *)

\* the sub-requests of a level, and those of the levels before it
LevelSize(l) == CASE l = 1 -> 1 [] l = 2 -> 2 [] l = 3 -> 4 [] OTHER -> 12
RequestsBefore(l) == CASE l = 1 -> 0 [] l = 2 -> 1 [] l = 3 -> 3 [] OTHER -> 7

\* C21: on a cache miss the levels are requested in the order year (1
\* sub-request), halves (2), quarters (4), months (12); a level is entered only
\* when every sub-request of the level before it has been made and none returned
\* records; and when no level returned records the call returns the empty frame
\* after 19 sub-requests, no call making more.
C21_LevelsInOrder ==
    /\ [](pc = "fetch"
            => /\ level \in 1..4
               /\ sub \in 1..LevelSize(level)
               /\ calls = RequestsBefore(level) + sub - 1
               /\ data_level \in {0, level})
    /\ [](calls <= 19)
    /\ []((pc = "returned" /\ entry.state # "records" /\ data_level = 0)
            => (~raised /\ df = EmptyFrame /\ level = 4 /\ calls = 19))
    /\ [][(pc = "fetch" /\ pc' = "fetch")
            => \/ level' = level /\ sub' = sub + 1
               \/ /\ level' = level + 1 /\ sub' = 1
                  /\ sub = LevelSize(level) /\ data_level' = 0]_vars

C21_Witness ==
    /\ pc = "returned"
    /\ entry.state = "NoFile"
    /\ df = EmptyFrame
    /\ level = 4
    /\ sub = 12
    /\ calls = 19

\* C22: a call that finds a cache entry it cannot read does not raise on it: it
\* starts the download at the full-year level as on a miss, and returns what the
\* download gives: the records it stored, or the empty frame after 19
\* sub-requests.
C22_CorruptIsMiss ==
    /\ [][(pc = "loop" /\ pc' # "idle" /\ k <= NumStations /\ stid \notin done
            /\ cache[stid].state \in {"Corrupt", "NoFile"})
            => (pc' = "fetch" /\ level' = 1 /\ sub' = 1 /\ calls' = 0 /\ ~raised'
                /\ df' = EmptyFrame /\ entry' = cache[stid])]_vars
    /\ []((pc = "returned" /\ entry.state = "Corrupt" /\ ~raised)
            => \/ df = EmptyFrame /\ calls = 19 /\ cache[stid] = entry
               \/ df = Records(stid, run) /\ cache[stid] = df /\ data_level # 0)
    /\ []((pc = "returned" /\ entry.state = "Corrupt" /\ raised) => data_level # 0)

C22_Witness ==
    /\ pc = "returned"
    /\ entry.state = "Corrupt"
    /\ df = Records(stid, run)
    /\ cache[stid] = df
    /\ data_level = 2

C28_ResumptionLossless ==
    pc = "finished"
        => \A s \in DONE_FILE :
              cache[s].state = "records"
                 => \E n \in 1..Len(station_frames) : station_frames[n] = <<s, cache[s]>>

\* C26: the pauses are unconditional.  Inside one call every sub-range request
\* made so far, whatever it returned, was followed by its pause before the next
\* request or the end of the call; a station that was attempted, marked done
\* or marked failed, goes through the pause between stations; and a station
\* attempt that is not the first of its run starts only after that pause.
C26_PausesUnconditional ==
    /\ [](naps = calls)
    /\ [][(pc = "returned" /\ pc' # "returned" /\ pc' # "idle") => pc' = "pause"]_vars
    /\ [][(pc = "pause" /\ pc' # "pause" /\ pc' # "idle") => paused']_vars
    /\ [][(Len(attempted') = Len(attempted) + 1 /\ Len(attempted) >= 1) => paused]_vars
C26_Witness ==
    /\ pc = "fetch" /\ Len(attempted) = 2 /\ marked_fail = {attempted[1]}
    /\ calls = 3 /\ naps = 3 /\ data_level = 0

----------------------------------------------------------------------------
(* Claims about _fetch_range, under SpecFetch *)

\* C25: for one sub-range the metadata is requested before any secondary
\* fetch; every secondary fetch uses the URL named by the newest metadata
\* answer; every secondary fetch that raised is followed by one more metadata
\* request before anything else; there are at most meta_tries secondary
\* fetches and at most 1 + meta_tries metadata requests; and once meta_tries
\* fetches have failed the call is over and hands back no records.
C25_MetaRefresh ==
    /\ [](Len(fetched) <= meta_tries /\ meta_requests <= 1 + meta_tries)
    /\ [](meta_requests = (IF fr_pc \in {"idle", "meta"} THEN 0 ELSE 1) + errors_n
                              - (IF fr_pc = "refresh" THEN 1 ELSE 0))
    /\ [][fr_pc = "refresh" => meta_requests' = meta_requests + 1]_vars
    /\ [][Len(fetched') = Len(fetched) + 1
            => (meta_requests >= 1 /\ fetched'[Len(fetched')] = get_datos(meta))]_vars
    /\ [](Len(fetched) = meta_tries
            => (fr_pc # "short" /\ (fr_pc \in {"returned", "raised"} /\ errors_n = meta_tries
                                      => fr_df = EmptyFrame /\ meta_requests = 1 + meta_tries)))
C25_Witness ==
    /\ fr_pc = "returned" /\ fr_df = EmptyFrame
    /\ fetched = <<"short1", "short2", "short1">>
    /\ errors_n = 3 /\ meta_requests = 4

----------------------------------------------------------------------------
(* Claims about one call of get_daily_climate_year, under SpecYear *)

\* C29: when a call obtained data, every sub-range of the level that gave the
\* first data was requested and no finer level was; what the call returns is
\* the rows of the sub-ranges of that level that returned records, each once,
\* in the order of the sub-ranges, and nothing of another level; the cache
\* file is written only with such a non-empty result, and a call that obtained
\* nothing returns nothing and leaves the cache as it found it.
C29_LevelConcatenation ==
    /\ []((pc \in {"store", "returned"} /\ data_level # 0)
            => /\ \A j \in 1..LevelSize(data_level) :
                     \E n \in 1..Len(asked) : asked[n] = <<data_level, j>>
               /\ \A n \in 1..Len(asked) : asked[n][1] <= data_level)
    /\ []((pc = "returned" /\ ~raised /\ data_level # 0)
            => /\ out_rows # <<>>
               /\ \A a, b \in 1..Len(out_rows) : a < b => out_rows[a].sub < out_rows[b].sub
               /\ {out_rows[n] : n \in 1..Len(out_rows)}
                     = {[level |-> q[1], sub |-> q[2]] : q \in {x \in got : x[1] = data_level}}
               /\ \A q \in got : q[1] = data_level
               /\ cache_rows = out_rows)
    /\ [][cache_rows' # cache_rows => (cache_rows' # <<>> /\ cache_rows' = out_rows')]_vars
    /\ []((pc = "returned" /\ data_level = 0)
            => (out_rows = <<>> /\ cache_rows = <<>> /\ cache[stid] = entry /\ df = EmptyFrame))
C29_Witness ==
    /\ pc = "returned" /\ ~raised /\ data_level = 3 /\ Len(asked) = 7
    /\ out_rows = <<[level |-> 3, sub |-> 2], [level |-> 3, sub |-> 4]>>
    /\ cache_rows = out_rows

----------------------------------------------------------------------------
(* Claims about the sub-range table, under SpecRanges *)

\* the Gregorian calendar, written out
DaysIn(yy, mm) ==
    CASE mm \in {4, 6, 9, 11} -> 30
      [] mm = 2 -> IF yy % 400 = 0 THEN 29 ELSE IF yy % 100 = 0 THEN 28
                   ELSE IF yy % 4 = 0 THEN 29 ELSE 28
      [] OTHER -> 31
IsDay(dt) == dt.m \in 1..12 /\ dt.d \in 1..DaysIn(dt.y, dt.m)
NextDay(dt) ==
    IF dt.d < DaysIn(dt.y, dt.m) THEN [dt EXCEPT !.d = @ + 1]
    ELSE IF dt.m < 12 THEN [y |-> dt.y, m |-> dt.m + 1, d |-> 1]
    ELSE [y |-> dt.y + 1, m |-> 1, d |-> 1]
SameYearNotAfter(a, b) == a.m < b.m \/ (a.m = b.m /\ a.d <= b.d)
DaysOfYear(yy) == {dt \in [y : {yy}, m : 1..12, d : 1..31] : IsDay(dt)}

\* C30: for every year and each of the four levels, the sub-ranges are real
\* days in ascending order, the first starts on 1 January, the last ends on
\* 31 December, each starts on the day after the one before it ends, and
\* every day of the year lies in exactly one sub-range of the level.
C30_RangesPartitionYear ==
    fn_pc = "ranges" =>
        /\ Len(year_ranges) = 4
        /\ \A l \in 1..4 :
              LET rr == year_ranges[l]
              IN  /\ Len(rr) = LevelSize(l)
                  /\ rr[1][1] = [y |-> year, m |-> 1, d |-> 1]
                  /\ rr[Len(rr)][2] = [y |-> year, m |-> 12, d |-> 31]
                  /\ \A n \in 1..Len(rr) :
                        /\ IsDay(rr[n][1]) /\ IsDay(rr[n][2])
                        /\ rr[n][1].y = year /\ rr[n][2].y = year
                        /\ SameYearNotAfter(rr[n][1], rr[n][2])
                  /\ \A n \in 1..(Len(rr) - 1) : rr[n + 1][1] = NextDay(rr[n][2])
                  /\ \A dt \in DaysOfYear(year) :
                        Cardinality({n \in 1..Len(rr) :
                            SameYearNotAfter(rr[n][1], dt) /\ SameYearNotAfter(dt, rr[n][2])}) = 1
C30_Witness ==
    /\ fn_pc = "ranges" /\ year = 2016
    /\ year_ranges[4][2] = <<[y |-> 2016, m |-> 2, d |-> 1], [y |-> 2016, m |-> 2, d |-> 29]>>
    /\ year_ranges[4][3][1] = [y |-> 2016, m |-> 3, d |-> 1]

====
